---------------------------- MODULE Spec2Model ----------------------------
(***************************************************************************)
(* RouteUtil (src/node-js-example.ts): the convention-based route builder  *)
(* and the request/response adapter it wraps controller methods with.      *)
(*                                                                         *)
(* A string is a sequence of one-character strings, so that the case       *)
(* conversions, split, replace and join are computed character by          *)
(* character as the code computes them.                                    *)
(***************************************************************************)
EXTENDS Integers, Sequences, FiniteSets, TLC

\* ------------------------------------------------------------------------
\* Characters and the change-case conversions the code calls
\* ------------------------------------------------------------------------

LowerAlphabet ==
  <<"a","b","c","d","e","f","g","h","i","j","k","l","m",
    "n","o","p","q","r","s","t","u","v","w","x","y","z">>

UpperAlphabet ==
  <<"A","B","C","D","E","F","G","H","I","J","K","L","M",
    "N","O","P","Q","R","S","T","U","V","W","X","Y","Z">>

IsLower(c) == \E i \in DOMAIN LowerAlphabet : LowerAlphabet[i] = c

IsUpper(c) == \E i \in DOMAIN UpperAlphabet : UpperAlphabet[i] = c

IsWordChar(c) == IsLower(c) \/ IsUpper(c)

toLowerChar(c) ==
  IF IsUpper(c)
  THEN LowerAlphabet[CHOOSE i \in DOMAIN UpperAlphabet : UpperAlphabet[i] = c]
  ELSE c

toUpperChar(c) ==
  IF IsLower(c)
  THEN UpperAlphabet[CHOOSE i \in DOMAIN LowerAlphabet : LowerAlphabet[i] = c]
  ELSE c

\* String.prototype.concat over a sequence of strings
RECURSIVE Concat(_)
Concat(ss) == IF ss = <<>> THEN <<>> ELSE Head(ss) \o Concat(Tail(ss))

\* Array.prototype.join(sep)
RECURSIVE join(_, _)
join(ss, sep) ==
  IF ss = <<>> THEN <<>>
  ELSE IF Len(ss) = 1 THEN ss[1]
  ELSE ss[1] \o sep \o join(Tail(ss), sep)

\* no-case: a word boundary falls before position i of s when s[i-1] is a
\* lower-case letter and s[i] an upper-case one (camelCase), or when s[i-1]
\* and s[i] are upper-case and s[i+1] is lower-case (CAMELCase)
CamelBoundary(s, i) ==
  /\ i > 1
  /\ \/ IsLower(s[i-1]) /\ IsUpper(s[i])
     \/ /\ IsUpper(s[i-1]) /\ IsUpper(s[i])
        /\ i < Len(s) /\ IsLower(s[i+1])

\* no-case: the words of s, lower-cased. Runs of non-word characters
\* separate words and are dropped at both ends; acc is the word being read.
RECURSIVE WordsFrom(_, _, _)
WordsFrom(s, i, acc) ==
  IF i > Len(s) THEN (IF acc = <<>> THEN <<>> ELSE <<acc>>)
  ELSE IF ~IsWordChar(s[i])
       THEN (IF acc = <<>> THEN <<>> ELSE <<acc>>) \o WordsFrom(s, i + 1, <<>>)
  ELSE IF CamelBoundary(s, i) /\ acc # <<>>
       THEN <<acc>> \o WordsFrom(s, i + 1, <<toLowerChar(s[i])>>)
  ELSE WordsFrom(s, i + 1, Append(acc, toLowerChar(s[i])))

noCaseWords(s) == WordsFrom(s, 1, <<>>)

\* changeCase.snakeCase
snakeCase(s) == join(noCaseWords(s), <<"_">>)

upperCaseFirst(s) ==
  IF s = <<>> THEN s ELSE <<toUpperChar(s[1])>> \o Tail(s)

\* changeCase.camelCase: the words joined, every word but the first capitalised
camelCase(s) ==
  LET ws == noCaseWords(s)
  IN  Concat([i \in DOMAIN ws |-> IF i = 1 THEN ws[i] ELSE upperCaseFirst(ws[i])])

\* String.prototype.split(sep)[0] for a one-character separator
RECURSIVE splitFirst(_, _)
splitFirst(s, sep) ==
  IF s = <<>> \/ Head(s) = sep THEN <<>>
  ELSE <<Head(s)>> \o splitFirst(Tail(s), sep)

startsWith(s, p) == Len(p) <= Len(s) /\ SubSeq(s, 1, Len(p)) = p

\* String.prototype.indexOf, 1-based; 0 when pat does not occur
indexOf(s, pat) ==
  LET hits == {i \in 1..(Len(s) - Len(pat) + 1) : SubSeq(s, i, i + Len(pat) - 1) = pat}
  IN  IF hits = {} THEN 0 ELSE CHOOSE i \in hits : \A j \in hits : i <= j

\* String.prototype.replace(pat, rep) with a string pattern: the first
\* occurrence only
replaceFirst(s, pat, rep) ==
  LET i == indexOf(s, pat)
  IN  IF i = 0 THEN s
      ELSE SubSeq(s, 1, i - 1) \o rep \o SubSeq(s, i + Len(pat), Len(s))

includes(arr, x) == \E i \in DOMAIN arr : arr[i] = x


\* ------------------------------------------------------------------------
\* JavaScript values the builder inspects
\* ------------------------------------------------------------------------

Undefined == [t |-> "undefined"]

Arr(items) == [t |-> "array", items |-> items]

Str(s) == [t |-> "string", s |-> s]

Num(n) == [t |-> "number", n |-> n]

Fn(id) == [t |-> "function", id |-> id]

\* a function reached through an object: MiddlewareService.<name>,
\* Object.prototype.<name>, or the wrapper around controller.<name>
FnOf(owner, name) == [t |-> "function", owner |-> owner, name |-> name]

\* v && Array.isArray(v) && v.length
isNonEmptyArray(v) == v.t = "array" /\ Len(v.items) > 0

\* Names every plain object inherits from Object.prototype: a lookup
\* obj[name] on an object literal finds them when obj has no own property
\* of that name. (constructor, toString, valueOf and hasOwnProperty stand
\* for the whole of Object.prototype.)
ObjectPrototypeNames ==
  { <<"c","o","n","s","t","r","u","c","t","o","r">>,
    <<"t","o","S","t","r","i","n","g">>,
    <<"v","a","l","u","e","O","f">>,
    <<"h","a","s","O","w","n","P","r","o","p","e","r","t","y">> }

\* literal[key] for an object literal with the own properties `own`
Lookup(own, key) ==
  IF key \in DOMAIN own THEN own[key]
  ELSE IF key \in ObjectPrototypeNames THEN FnOf("Object.prototype", key)
  ELSE Undefined

\* ------------------------------------------------------------------------
\* RouteUtil's static tables
\* ------------------------------------------------------------------------

GET == <<"g","e","t">>

POST == <<"p","o","s","t">>

PATCH == <<"p","a","t","c","h">>

PUT == <<"p","u","t">>

DELETE == <<"d","e","l","e","t","e">>

LIST == <<"l","i","s","t">>

CREATE == <<"c","r","e","a","t","e">>

UPDATE == <<"u","p","d","a","t","e">>

DESTROY == <<"d","e","s","t","r","o","y">>

SHOW == <<"s","h","o","w">>

predefinedRoutes ==
  (LIST :> Str(GET)) @@ (CREATE :> Str(POST)) @@ (UPDATE :> Str(PATCH))
    @@ (DESTROY :> Str(DELETE)) @@ (SHOW :> Str(GET))

acceptedMethods == <<GET, POST, PATCH, PUT, DELETE>>

routeWithParams == <<UPDATE, DESTROY, SHOW>>

ignoredKeys ==
  << <<"r","o","u","t","e","M","i","d","d","l","e","w","a","r","e","s">>,
     <<"r","o","u","t","e","V","a","l","i","d","a","t","i","o","n">>,
     <<"r","o","u","t","e","P","a","r","a","m","s">> >>

errorCheckerFn == Fn("errorChecker")

\* ------------------------------------------------------------------------
\* Path and chain construction
\* ------------------------------------------------------------------------

\* `${a}/${b}`
Slash(a, b) == a \o <<"/">> \o b

\* `${a}/:${b}`
SlashColon(a, b) == a \o <<"/", ":">> \o b

getDefaultRoutePath(controllerPath, methodName, paramName) ==
  IF ~includes(routeWithParams, methodName) THEN controllerPath
  ELSE SlashColon(controllerPath, paramName)

\* String.prototype.replace with a global pattern: every occurrence
RECURSIVE replaceAll(_, _, _)
replaceAll(s, pat, rep) ==
  IF indexOf(s, pat) = 0 THEN s
  ELSE SubSeq(s, 1, indexOf(s, pat) - 1) \o rep
         \o replaceAll(SubSeq(s, indexOf(s, pat) + Len(pat), Len(s)), pat, rep)

\* getCustomRoutePath removing every occurrence of the verb prefix
getCustomRoutePathGlobal(controller, controllerPath, methodName, requestType) ==
  LET base == Slash(controllerPath,
                    replaceAll(snakeCase(methodName), requestType \o <<"_">>, <<>>))
      ps   == Lookup(controller.params, methodName)
  IN  IF isNonEmptyArray(ps)
      THEN SlashColon(base, join(ps.items, <<"/", ":">>))
      ELSE base

getCustomRoutePath(controller, controllerPath, methodName, requestType) ==
  LET base == Slash(controllerPath,
                    replaceFirst(snakeCase(methodName), requestType \o <<"_">>, <<>>))
      ps   == Lookup(controller.params, methodName)
  IN  IF isNonEmptyArray(ps)
      THEN SlashColon(base, join(ps.items, <<"/", ":">>))
      ELSE base

getCustomRouteRequestType(methodName) == splitFirst(snakeCase(methodName), "_")

\* checkIsRouteMethod testing the name for an accepted prefix instead of
\* its leading word
checkIsRouteMethodPrefix(methodName) ==
  \E a \in DOMAIN acceptedMethods :
    startsWith(snakeCase(methodName), acceptedMethods[a])

checkIsRouteMethod(methodName) ==
  includes(acceptedMethods, getCustomRouteRequestType(methodName))

\* the own property names of MiddlewareService whose value is a function
getMiddlewaresMapped(service) ==
  LET fns == {i \in DOMAIN service : service[i].fn}
  IN  [n \in {service[i].name : i \in fns} |-> FnOf("MiddlewareService", n)]

addValidation(middlewares, methodName, controller) ==
  LET v == Lookup(controller.validation, methodName)
  IN  IF isNonEmptyArray(v)
      THEN middlewares \o <<v, errorCheckerFn>>
      ELSE middlewares

\* the functions one entry of controller.middlewares[methodName] adds
MiddlewareOf(mapped, item) ==
  IF item.t = "function" THEN <<item>>
  ELSE IF item.t = "string"
  THEN (IF Lookup(mapped, item.s).t = "function"
        THEN <<Lookup(mapped, item.s)>>
        ELSE <<>>)
  ELSE <<>>

getRouteMiddlewares(mapped, methodName, controller) ==
  LET ms == Lookup(controller.middlewares, methodName)
      picked == IF isNonEmptyArray(ms)
                THEN Concat([i \in DOMAIN ms.items |-> MiddlewareOf(mapped, ms.items[i])])
                ELSE <<>>
  IN  addValidation(picked, methodName, controller)

\* the (req, res, next) wrapper getControllerMethod returns
getControllerMethod(methodName) == FnOf("controller", methodName)


\* ------------------------------------------------------------------------
\* The inputs of a build: the controllers directory, the controller
\* modules and MiddlewareService
\* ------------------------------------------------------------------------

\* longest controller (number of own properties) the build is given
MaxKeys == 2

\* deepest folder below the controllers directory
MaxDepth == 2

\* longest controller.middlewares[method] array
MaxMiddlewares == 2

\* longest controller.params[method] array
MaxParams == 2

apiPathDefault == <<"/","a","p","i">>

UserRole == <<"u","s","e","r","_","r","o","l","e">>

Admin == <<"a","d","m","i","n">>

Item == <<"i","t","e","m">>

Notes == <<"n","o","t","e","s">>

Index == <<"i","n","d","e","x">>

GetMe == <<"g","e","t","M","e">>

GetGetX == <<"g","e","t","G","e","t","X">>

PostItem == <<"p","o","s","t","I","t","e","m">>

FetchAll == <<"f","e","t","c","h","A","l","l">>

Getter == <<"g","e","t","t","e","r">>

ToStringKey == <<"t","o","S","t","r","i","n","g">>

DeleteAll == <<"d","e","l","e","t","e","A","l","l">>

PutIt == <<"p","u","t","I","t">>

PatchGetIt == <<"p","a","t","c","h","_","g","e","t","_","i","t">>

Auth == <<"a","u","t","h">>

Nope == <<"n","o","p","e">>

\* readdirSync(dir) with lstatSync(entry).isFile() of every entry: two
\* folders and a file at the top, a file and a folder below, files only at
\* MaxDepth
ReaddirSync(dir) ==
  IF dir = <<>>
  THEN << [name |-> UserRole, file |-> FALSE], [name |-> Notes, file |-> TRUE],
          [name |-> Admin, file |-> FALSE] >>
  ELSE IF Len(dir) < MaxDepth
  THEN << [name |-> Index, file |-> TRUE], [name |-> Item, file |-> FALSE] >>
  ELSE << [name |-> Index, file |-> TRUE] >>

\* the own properties of the MiddlewareService class
MiddlewareService ==
  << [name |-> <<"l","e","n","g","t","h">>, fn |-> FALSE],
     [name |-> <<"n","a","m","e">>, fn |-> FALSE],
     [name |-> <<"p","r","o","t","o","t","y","p","e">>, fn |-> FALSE],
     [name |-> Auth, fn |-> TRUE] >>

MethodNameInputs ==
  { LIST, CREATE, UPDATE, DESTROY, SHOW, GET, GetMe, GetGetX, PostItem,
    DeleteAll, PutIt, PatchGetIt, FetchAll, Getter, ToStringKey, ignoredKeys[3] }

\* own enumerable properties a controller instance may carry
PropertyInputs ==
  [name : MethodNameInputs, fn : {TRUE}]
    \cup { [name |-> GetMe, fn |-> FALSE], [name |-> LIST, fn |-> FALSE] }

RECURSIVE SeqsUpTo(_, _)
SeqsUpTo(S, n) ==
  IF n = 0 THEN { <<>> }
  ELSE LET shorter == SeqsUpTo(S, n - 1)
       IN  shorter \cup { Append(q, x) : q \in shorter, x \in S }

DistinctNames(keys) ==
  \A i, j \in DOMAIN keys : keys[i].name = keys[j].name => i = j

NoConfig == [n \in {} |-> Undefined]

Controller(keys, middlewares, validation, params) ==
  [keys |-> keys, middlewares |-> middlewares, validation |-> validation,
   params |-> params]

\* the properties that may follow the first one of a controller
FollowingInputs ==
  [name : {LIST, SHOW, UPDATE, GetMe, GetGetX, ToStringKey}, fn : {TRUE}]

\* the property lists given: any first property, then following ones
KeyInputs ==
  { <<>> } \cup
  { <<first>> \o rest :
      first \in PropertyInputs, rest \in SeqsUpTo(FollowingInputs, MaxKeys - 1) }

\* controllers that differ in their own properties and their order
KeyControllers ==
  { Controller(keys, NoConfig, NoConfig, NoConfig) :
      keys \in {q \in KeyInputs : DistinctNames(q)} }

MiddlewareItemInputs ==
  { Fn("f1"), Fn("f2"), Str(Auth), Str(Nope), Str(ToStringKey), Num(42) }

MiddlewareInputs ==
  { Undefined, Str(Auth) }
    \cup { Arr(q) : q \in SeqsUpTo(MiddlewareItemInputs, MaxMiddlewares) }

ValidationInputs ==
  { Undefined, Arr(<<>>), Str(Auth), Arr(<<Fn("check1")>>),
    Arr(<<Fn("check1"), Fn("check2")>>) }

ParamInputs ==
  { Undefined, Str(<<"i","d">>) }
    \cup { Arr(q) : q \in SeqsUpTo({<<"a">>, <<"i","d">>}, MaxParams) }

\* one-method controllers that differ in the method's middlewares,
\* validation and params
ChainControllers ==
  { Controller(<<[name |-> m, fn |-> TRUE]>>, NoConfig, NoConfig, m :> p) :
      m \in MethodNameInputs, p \in ParamInputs }
  \cup
  { Controller(<<[name |-> m, fn |-> TRUE]>>, m :> w, m :> v, NoConfig) :
      m \in {LIST, SHOW, GetMe}, w \in MiddlewareInputs, v \in ValidationInputs }

\* a full resource controller with a custom route, middlewares and params
ResourceController ==
  Controller(
    << [name |-> SHOW, fn |-> TRUE], [name |-> GetMe, fn |-> TRUE],
       [name |-> LIST, fn |-> TRUE] >>,
    (SHOW :> Arr(<<Str(Auth)>>)) @@ (GetMe :> Arr(<<Fn("f1")>>)),
    (GetMe :> Arr(<<Fn("check1")>>)),
    (GetMe :> Arr(<< <<"i","d">> >>)))

\* the modules require() may find for the folder at `dir`: every input
\* controller for the first folder, the resource controller elsewhere
ControllerInputs(dir) ==
  IF dir = <<UserRole>>
  THEN KeyControllers \cup ChainControllers
  ELSE { ResourceController }


\* ------------------------------------------------------------------------
\* RouteUtil.build as a state machine
\* ------------------------------------------------------------------------

VARIABLES
  pc,                 \* "start", "building", "returned" or "threw"
  stack,              \* the active buildSubFolderRoutes calls, innermost last
  cur,                \* the buildController call past its require, if any
  router,             \* the calls router[verb](path, ...args), in order
  scans,              \* the buildSubFolderRoutes calls made: directory, apiPath
  loaded,             \* the controllers instantiated: folder, apiPath, controller
  failed,             \* the folders whose require threw
  middlewaresMapped   \* RouteUtil.middlewaresMapped

buildVars ==
  <<pc, stack, cur, router, scans, loaded, failed, middlewaresMapped>>

VARIABLES
  rpc,        \* where the request is: "idle", "errorChecker", "handler",
              \* "awaiting" (the controller's promise is pending), "done",
              \* or "thrown" (a middleware threw to the framework)
  req,        \* the request: whether its route runs errorChecker, and the
              \* errors validationResult(req) holds
  res,        \* the response: statusCode, and whether res.json would throw
  settled,    \* how the controller method ended, and with what
  jsonCalls,  \* the wrapper's res.json calls: the body, and whether it was sent
  nextCalls,  \* the next(...) calls: who called, and the argument
  raised      \* what was thrown out of a middleware to the framework

serveVars == <<rpc, req, res, settled, jsonCalls, nextCalls, raised>>

vars == <<buildVars, serveVars>>

\* the verbs an express Router has a method for
routerMethods == {GET, POST, PATCH, PUT, DELETE}

\* buildController running its predefined loop first
LoopOrderPredefinedFirst == <<"predefined", "custom">>

\* the loops of buildController, in the order it runs them
LoopOrder == <<"custom", "predefined">>

className(folderName) ==
  upperCaseFirst(camelCase(folderName)) \o <<"C","o","n","t","r","o","l","l","e","r">>

paramNameOf(folderName) == camelCase(folderName) \o <<"I","d">>

\* the folder segment camel-cased like the class and parameter names
controllerApiPathCamel(apiPath, folderName) == Slash(apiPath, camelCase(folderName))

\* `${apiPath}/${folderName}`
controllerApiPath(apiPath, folderName) == Slash(apiPath, folderName)

\* Object.keys(controller) without the ignored keys and the non-functions
methodNamesOf(controller) ==
  LET kept == SelectSeq(controller.keys,
                        LAMBDA k : ~includes(ignoredKeys, k.name) /\ k.fn)
  IN  [i \in DOMAIN kept |-> kept[i].name]

\* the router call buildCustomRoute makes
buildCustomRoute(mapped, controller, controllerPath, methodName) ==
  LET requestType == getCustomRouteRequestType(methodName)
  IN  [verb |-> requestType,
       path |-> getCustomRoutePath(controller, controllerPath, methodName, requestType),
       args |-> Append(getRouteMiddlewares(mapped, methodName, controller),
                       getControllerMethod(methodName))]

\* the router call buildDefaultRoute makes, for a requestType the router
\* has a method for
buildDefaultRoute(mapped, controller, apiPath, methodName, paramName) ==
  [verb |-> Lookup(predefinedRoutes, methodName).s,
   path |-> getDefaultRoutePath(apiPath, methodName, paramName),
   args |-> Append(getRouteMiddlewares(mapped, methodName, controller),
                   getControllerMethod(methodName))]

\* a router call with the controller and loop it was made for
Registered(call, by, c) ==
  [verb |-> call.verb, path |-> call.path, args |-> call.args,
   by |-> by, folder |-> c.folder, method |-> c.methodNames[c.i]]

Top == stack[Len(stack)]

Entry == ReaddirSync(Top.dir)[Top.i]

AdvanceTop == [stack EXCEPT ![Len(stack)].i = @ + 1]

BuildInit ==
  /\ pc = "start"
  /\ stack = <<>>
  /\ cur = <<>>
  /\ router = <<>>
  /\ scans = <<>>
  /\ loaded = <<>>
  /\ failed = {}
  /\ middlewaresMapped = NoConfig

\* build(): getMiddlewaresMapped, then buildSubFolderRoutes on the
\* controllers directory
build ==
  /\ pc = "start"
  /\ pc' = "building"
  /\ middlewaresMapped' = getMiddlewaresMapped(MiddlewareService)
  /\ stack' = << [dir |-> <<>>, apiPath |-> apiPathDefault, i |-> 1] >>
  /\ scans' = Append(scans, [dir |-> <<>>, apiPath |-> apiPathDefault])
  /\ UNCHANGED <<cur, router, loaded, failed>>
  /\ UNCHANGED serveVars

InFolderLoop == pc = "building" /\ cur = <<>> /\ stack # <<>>

\* buildSubFolderRoutes: the loop is over, the call returns
FoldersDone ==
  /\ InFolderLoop
  /\ Top.i > Len(ReaddirSync(Top.dir))
  /\ stack' = SubSeq(stack, 1, Len(stack) - 1)
  /\ pc' = IF Len(stack) = 1 THEN "returned" ELSE pc
  /\ UNCHANGED <<cur, router, scans, loaded, failed, middlewaresMapped>>
  /\ UNCHANGED serveVars

\* buildSubFolderRoutes: isFile(controllerPath), continue
SkipFile ==
  /\ InFolderLoop
  /\ Top.i <= Len(ReaddirSync(Top.dir))
  /\ Entry.file
  /\ stack' = AdvanceTop
  /\ UNCHANGED <<pc, cur, router, scans, loaded, failed, middlewaresMapped>>
  /\ UNCHANGED serveVars

\* buildController: require throws, buildSubFolderRoutes on the folder
RequireThrows ==
  /\ InFolderLoop
  /\ Top.i <= Len(ReaddirSync(Top.dir))
  /\ ~Entry.file
  /\ LET dir == Append(Top.dir, Entry.name)
         apiPath == controllerApiPath(Top.apiPath, Entry.name)
     IN  /\ failed' = failed \cup {dir}
         /\ stack' = Append(AdvanceTop, [dir |-> dir, apiPath |-> apiPath, i |-> 1])
         /\ scans' = Append(scans, [dir |-> dir, apiPath |-> apiPath])
  /\ UNCHANGED <<pc, cur, router, loaded, middlewaresMapped>>
  /\ UNCHANGED serveVars

\* buildController: require finds the module, the controller is
\* instantiated and its method names are collected
RequireLoads ==
  /\ InFolderLoop
  /\ Top.i <= Len(ReaddirSync(Top.dir))
  /\ ~Entry.file
  /\ \E controller \in ControllerInputs(Append(Top.dir, Entry.name)) :
       LET dir == Append(Top.dir, Entry.name)
           apiPath == controllerApiPath(Top.apiPath, Entry.name)
       IN  /\ cur' = << [folder |-> dir, apiPath |-> apiPath,
                         controller |-> controller,
                         paramName |-> paramNameOf(Entry.name),
                         methodNames |-> methodNamesOf(controller),
                         phase |-> 1, i |-> 1] >>
           /\ loaded' = Append(loaded, [folder |-> dir, apiPath |-> apiPath,
                                        controller |-> controller])
  /\ UNCHANGED <<pc, stack, router, scans, failed, middlewaresMapped>>
  /\ UNCHANGED serveVars

InLoop(kind) ==
  /\ pc = "building"
  /\ cur # <<>>
  /\ LoopOrder[cur[1].phase] = kind
  /\ cur[1].i <= Len(cur[1].methodNames)

\* one iteration of the loop over checkIsRouteMethod
CustomLoopStep ==
  /\ InLoop("custom")
  /\ LET c == cur[1]
         methodName == c.methodNames[c.i]
     IN  router' =
           IF checkIsRouteMethod(methodName)
           THEN Append(router,
                  Registered(buildCustomRoute(middlewaresMapped, c.controller,
                                              c.apiPath, methodName), "custom", c))
           ELSE router
  /\ cur' = [cur EXCEPT ![1].i = @ + 1]
  /\ UNCHANGED <<pc, stack, scans, loaded, failed, middlewaresMapped>>
  /\ UNCHANGED serveVars

\* one iteration of the loop over predefinedRoutes[methodName]; the call
\* router[requestType](...) throws a TypeError when the router has no
\* such method, and nothing up to build() catches it
DefaultLoopStep ==
  /\ InLoop("predefined")
  /\ LET c == cur[1]
         methodName == c.methodNames[c.i]
         requestType == Lookup(predefinedRoutes, methodName)
     IN  IF requestType.t = "undefined"
         THEN /\ cur' = [cur EXCEPT ![1].i = @ + 1]
              /\ UNCHANGED <<pc, router>>
         ELSE IF requestType.t = "string" /\ requestType.s \in routerMethods
         THEN /\ router' = Append(router,
                    Registered(buildDefaultRoute(middlewaresMapped, c.controller,
                                 c.apiPath, methodName, c.paramName),
                               "predefined", c))
              /\ cur' = [cur EXCEPT ![1].i = @ + 1]
              /\ UNCHANGED pc
         ELSE /\ pc' = "threw"
              /\ UNCHANGED <<cur, router>>
  /\ UNCHANGED <<stack, scans, loaded, failed, middlewaresMapped>>
  /\ UNCHANGED serveVars

\* a loop of buildController is over: the next loop starts, or
\* buildController returns to the folder loop
LoopDone ==
  /\ pc = "building"
  /\ cur # <<>>
  /\ cur[1].i > Len(cur[1].methodNames)
  /\ IF cur[1].phase < Len(LoopOrder)
     THEN /\ cur' = [cur EXCEPT ![1].phase = @ + 1, ![1].i = 1]
          /\ UNCHANGED stack
     ELSE /\ cur' = <<>>
          /\ stack' = AdvanceTop
  /\ UNCHANGED <<pc, router, scans, loaded, failed, middlewaresMapped>>
  /\ UNCHANGED serveVars

BuildNext ==
  \/ build
  \/ FoldersDone
  \/ SkipFile
  \/ RequireThrows
  \/ RequireLoads
  \/ CustomLoopStep
  \/ DefaultLoopStep
  \/ LoopDone


\* ------------------------------------------------------------------------
\* A request through errorChecker and the wrapped controller method
\* ------------------------------------------------------------------------

\* most validation errors validationResult(req) holds
MaxErrors == 2

\* A value a controller method resolves with: its literal (for the
\* primitives), its own property names, the property names of the objects
\* nested in it (an array's elements, an object's object-valued
\* properties), and whether its own properties are non-configurable
\* (Object.freeze).
Value(t, lit, own, inner, frozen) ==
  [t |-> t, lit |-> lit, own |-> own, inner |-> inner, frozen |-> frozen]

Primitive(t, lit) == Value(t, lit, {}, {}, FALSE)

OK == Primitive("string", "ok")

ValueInputs ==
  { Primitive("undefined", "undefined"), Primitive("object", "null"),
    Primitive("boolean", "false"), Primitive("boolean", "true"),
    Primitive("number", "0"), Primitive("number", "NaN"),
    Primitive("number", "7"), Primitive("string", ""),
    Primitive("string", "text"), Primitive("bigint", "0n") }
  \cup { Value("object", "{}", own, inner, frozen) :
           own \in SUBSET {"id", "password"},
           inner \in {{}, {"id", "password"}},
           frozen \in BOOLEAN }
  \cup { Value("array", "[]", {}, inner, FALSE) :
           inner \in {{}, {"id"}, {"id", "password"}} }

\* ToBoolean
truthy(v) == v.lit \notin {"undefined", "null", "false", "0", "NaN", "", "0n"}

\* v === 0
isZero(v) == v.t = "number" /\ v.lit = "0"

ErrorInputs == {"Error:notFound", "Error:db"}

ValidationErrorInputs ==
  { [param |-> <<"i","d">>, msg |-> <<"b","a","d">>],
    [param |-> <<"n","a","m","e">>, msg |-> <<"e","m","p","t","y">>] }

StatusInputs == {200, 201, 404}

ValidationError(message) == [name |-> "ValidationError", message |-> message]

NoArgument == <<>>

\* the wrapper replacing every falsy result, 0 included
normalizedFalsy(result) == IF ~truthy(result) THEN OK ELSE result

\* getControllerMethod: what the wrapper hands to resultSend
normalized(result) ==
  IF ~truthy(result) /\ ~isZero(result) THEN OK ELSE result

\* resultSend calling res.json whatever the status code
resultSendAnyStatus(response, result) ==
  LET strip == truthy(result) /\ "password" \in result.own
      body  == IF strip THEN [result EXCEPT !.own = @ \ {"password"}] ELSE result
  IN  IF strip /\ result.frozen
      THEN [threw |-> TRUE, error |-> "TypeError:delete", json |-> FALSE, body |-> result]
      ELSE [threw |-> FALSE, error |-> "", json |-> TRUE, body |-> body]

\* resultSend up to its return: the TypeError the strict-mode delete of a
\* non-configurable property throws, or else the body and whether
\* res.json is called with it
resultSend(response, result) ==
  LET strip == truthy(result) /\ "password" \in result.own
      body  == IF strip THEN [result EXCEPT !.own = @ \ {"password"}] ELSE result
  IN  IF strip /\ result.frozen
      THEN [threw |-> TRUE, error |-> "TypeError:delete", json |-> FALSE, body |-> result]
      ELSE [threw |-> FALSE, error |-> "", json |-> response.statusCode = 200,
            body |-> body]

\* errorChecker: next() or the ValidationError thrown
errorCheckerOutcome(errors) ==
  IF errors = <<>>
  THEN [threw |-> FALSE, error |-> ValidationError(<<>>)]
  ELSE [threw |-> TRUE,
        error |-> ValidationError(errors[1].param \o <<" ">> \o errors[1].msg)]

\* a catch block that rethrows instead of calling next
catchRethrows(e) == [next |-> <<>>, rethrown |-> <<e>>]

\* the catch block of the wrapper: next(e), nothing rethrown
catch(e) == [next |-> <<[by |-> "handler", arg |-> <<e>>]>>, rethrown |-> <<>>]

ServeIdle ==
  /\ rpc = "idle"
  /\ req = [viaErrorChecker |-> FALSE, errors |-> <<>>]
  /\ res = [statusCode |-> 200, jsonThrows |-> FALSE]
  /\ settled = [how |-> "pending", error |-> "", value |-> OK]
  /\ jsonCalls = <<>>
  /\ nextCalls = <<>>
  /\ raised = <<>>

\* a request reaches a route with validation (errorChecker first) or one
\* without (the wrapper directly)
ServeInit ==
  /\ rpc \in {"errorChecker", "handler"}
  /\ req \in [viaErrorChecker : {rpc = "errorChecker"},
               errors : IF rpc = "errorChecker"
                        THEN SeqsUpTo(ValidationErrorInputs, MaxErrors)
                        ELSE {<<>>}]
  /\ res \in [statusCode : {200}, jsonThrows : BOOLEAN]
  /\ settled = [how |-> "pending", error |-> "", value |-> OK]
  /\ jsonCalls = <<>>
  /\ nextCalls = <<>>
  /\ raised = <<>>

errorChecker ==
  /\ rpc = "errorChecker"
  /\ LET out == errorCheckerOutcome(req.errors)
     IN  IF out.threw
         THEN /\ raised' = Append(raised, out.error)
              /\ rpc' = "thrown"
              /\ UNCHANGED nextCalls
         ELSE /\ nextCalls' = Append(nextCalls, [by |-> "errorChecker", arg |-> NoArgument])
              /\ rpc' = "handler"
              /\ UNCHANGED raised
  /\ UNCHANGED <<req, res, settled, jsonCalls>>
  /\ UNCHANGED buildVars

\* the wrapper calls controller[methodName](req, res, next), which throws
\* before returning: the catch block runs
ControllerThrows ==
  /\ rpc = "handler"
  /\ \E e \in ErrorInputs :
       /\ settled' = [how |-> "threw", error |-> e, value |-> OK]
       /\ nextCalls' = nextCalls \o catch(e).next
       /\ raised' = raised \o catch(e).rethrown
  /\ rpc' = "done"
  /\ UNCHANGED <<req, res, jsonCalls>>
  /\ UNCHANGED buildVars

\* the controller method returns (it may have set the status code); the
\* wrapper is suspended at its await
ControllerReturns ==
  /\ rpc = "handler"
  /\ \E code \in StatusInputs : res' = [res EXCEPT !.statusCode = code]
  /\ rpc' = "awaiting"
  /\ UNCHANGED <<req, settled, jsonCalls, nextCalls, raised>>
  /\ UNCHANGED buildVars

\* the awaited promise rejects: the catch block runs
Rejected ==
  /\ rpc = "awaiting"
  /\ \E e \in ErrorInputs :
       /\ settled' = [how |-> "rejected", error |-> e, value |-> OK]
       /\ nextCalls' = nextCalls \o catch(e).next
       /\ raised' = raised \o catch(e).rethrown
  /\ rpc' = "done"
  /\ UNCHANGED <<req, res, jsonCalls>>
  /\ UNCHANGED buildVars

\* the awaited value arrives: the wrapper normalizes it and calls
\* resultSend; what resultSend or res.json throws reaches the catch block
Fulfilled ==
  /\ rpc = "awaiting"
  /\ \E result \in ValueInputs :
       LET sent == resultSend(res, normalized(result))
           sendError ==
             IF sent.threw THEN <<sent.error>>
             ELSE IF sent.json /\ res.jsonThrows THEN <<"Error:res.json">>
             ELSE <<>>
       IN  /\ settled' = [how |-> "resolved", error |-> "", value |-> result]
           /\ jsonCalls' =
                IF sent.json
                THEN Append(jsonCalls, [body |-> sent.body, sent |-> ~res.jsonThrows])
                ELSE jsonCalls
           /\ nextCalls' =
                IF sendError # <<>> THEN nextCalls \o catch(sendError[1]).next
                ELSE nextCalls
           /\ raised' =
                IF sendError # <<>> THEN raised \o catch(sendError[1]).rethrown
                ELSE raised
  /\ rpc' = "done"
  /\ UNCHANGED <<req, res>>
  /\ UNCHANGED buildVars

ServeNext ==
  \/ errorChecker
  \/ ControllerThrows
  \/ ControllerReturns
  \/ Rejected
  \/ Fulfilled

\* ------------------------------------------------------------------------
\* Specifications
\* ------------------------------------------------------------------------

Init == BuildInit /\ ServeIdle

Next == BuildNext

\* one run of RouteUtil.build
Spec == Init /\ [][Next]_vars

InitServe == BuildInit /\ ServeInit

NextServe == ServeNext

\* one request served by a route the build registered
SpecServe == InitServe /\ [][NextServe]_vars


\* ------------------------------------------------------------------------
\* Properties of the build
\* ------------------------------------------------------------------------

Ended == pc \in {"returned", "threw"}

\* <apiPath>/f1/.../fn for the folder f1/.../fn below the controllers
\* directory
FolderApiPath(folder) ==
  apiPathDefault \o Concat([i \in DOMAIN folder |-> <<"/">> \o folder[i]])

\* the controller instantiated for a folder
LoadedAt(folder) ==
  loaded[CHOOSE k \in DOMAIN loaded : loaded[k].folder = folder]

RoutesFor(folder, methodName) ==
  {i \in DOMAIN router : router[i].folder = folder /\ router[i].method = methodName}

PredefinedNames == {LIST, CREATE, UPDATE, DESTROY, SHOW}

ExpectedVerb(methodName) ==
  CASE methodName = LIST -> GET
    [] methodName = CREATE -> POST
    [] methodName = UPDATE -> PATCH
    [] methodName = DESTROY -> DELETE
    [] methodName = SHOW -> GET

ExpectedDefaultPath(folder, methodName) ==
  IF methodName \in {LIST, CREATE}
  THEN FolderApiPath(folder)
  ELSE FolderApiPath(folder) \o <<"/", ":">>
         \o camelCase(folder[Len(folder)]) \o <<"I","d">>

\* C1: once build has ended, every function-valued own property of a
\* loaded controller named list, create, update, destroy or show has
\* exactly one route, with the verb and path of the convention: list ->
\* GET <base>, create -> POST <base>, update -> PATCH <base>/:<id>,
\* destroy -> DELETE <base>/:<id>, show -> GET <base>/:<id>.
C1_PredefinedRoutes ==
  Ended =>
    \A k \in DOMAIN loaded :
      \A j \in DOMAIN loaded[k].controller.keys :
        LET key == loaded[k].controller.keys[j]
            at  == RoutesFor(loaded[k].folder, key.name)
        IN  (key.fn /\ key.name \in PredefinedNames) =>
              /\ Cardinality(at) = 1
              /\ \A i \in at :
                   /\ router[i].verb = ExpectedVerb(key.name)
                   /\ router[i].path = ExpectedDefaultPath(loaded[k].folder, key.name)

LeadingWord(methodName) ==
  IF noCaseWords(methodName) = <<>> THEN <<>> ELSE noCaseWords(methodName)[1]

\* the custom loop of buildController has run for loaded[k]
CustomLoopRan(k) ==
  \/ cur = <<>>
  \/ cur[1].folder # loaded[k].folder
  \/ \E ph \in DOMAIN LoopOrder :
       LoopOrder[ph] = "custom" /\
         (cur[1].phase > ph \/ (cur[1].phase = ph /\ cur[1].i > Len(cur[1].methodNames)))

\* C6: a function-valued property that is neither a predefined name nor
\* an ignored key is registered as a custom route, with the leading word
\* of its snake-cased name as verb, exactly when that word is get, post,
\* patch, put or delete; no method has both a custom and a predefined
\* route.
C6_CustomRouteVerb ==
  /\ \A i \in DOMAIN router :
       router[i].by = "custom" =>
         /\ router[i].verb = LeadingWord(router[i].method)
         /\ router[i].verb \in {GET, POST, PATCH, PUT, DELETE}
         /\ router[i].method \notin PredefinedNames
         /\ ~includes(ignoredKeys, router[i].method)
         /\ \E j \in DOMAIN LoadedAt(router[i].folder).controller.keys :
              LET key == LoadedAt(router[i].folder).controller.keys[j]
              IN  key.name = router[i].method /\ key.fn
  /\ \A k \in DOMAIN loaded :
       CustomLoopRan(k) =>
         \A j \in DOMAIN loaded[k].controller.keys :
           LET key == loaded[k].controller.keys[j]
               customs == {i \in RoutesFor(loaded[k].folder, key.name) :
                             router[i].by = "custom"}
           IN  (key.fn /\ key.name \notin PredefinedNames
                  /\ ~includes(ignoredKeys, key.name)) =>
                 IF LeadingWord(key.name) \in {GET, POST, PATCH, PUT, DELETE}
                 THEN Cardinality(customs) = 1
                 ELSE RoutesFor(loaded[k].folder, key.name) = {}
  /\ \A i, j \in DOMAIN router :
       (router[i].folder = router[j].folder /\ router[i].method = router[j].method)
         => router[i].by = router[j].by

C6_Witness ==
  /\ pc = "returned"
  /\ \E k \in DOMAIN loaded :
       /\ loaded[k].controller.keys
            = << [name |-> Getter, fn |-> TRUE], [name |-> GetGetX, fn |-> TRUE] >>
       /\ RoutesFor(loaded[k].folder, Getter) = {}
       /\ \E i \in RoutesFor(loaded[k].folder, GetGetX) :
            router[i].by = "custom" /\ router[i].verb = GET

\* the snake-cased name without its leading verb word
SubPath(methodName) ==
  LET ws == noCaseWords(methodName)
  IN  IF Len(ws) = 1 THEN ws[1] ELSE join(Tail(ws), <<"_">>)

ParamSuffix(ps) ==
  IF ps.t = "array"
  THEN Concat([i \in DOMAIN ps.items |-> <<"/", ":">> \o ps.items[i]])
  ELSE <<>>

OwnOrUndefined(obj, key) == IF key \in DOMAIN obj THEN obj[key] ELSE Undefined

\* C7: the path of a custom route is <base>/<s>, <s> the snake-cased
\* method name without its leading verb prefix (only the leading one; a
\* name that is the verb alone keeps it), followed by /:p for every p of
\* controller.params[method] in declared order.
C7_CustomRoutePath ==
  \A i \in DOMAIN router :
    router[i].by = "custom" =>
      router[i].path =
        FolderApiPath(router[i].folder) \o <<"/">> \o SubPath(router[i].method)
          \o ParamSuffix(OwnOrUndefined(LoadedAt(router[i].folder).controller.params,
                                        router[i].method))

C7_Witness ==
  \E i, j \in DOMAIN router :
    /\ router[i].method = PatchGetIt
    /\ router[i].by = "custom"
    /\ OwnOrUndefined(LoadedAt(router[i].folder).controller.params, PatchGetIt)
         = Arr(<< <<"i","d">>, <<"a">> >>)
    /\ router[j].method = GetMe
    /\ router[j].folder # router[i].folder

IsFolderPath(dir) ==
  \A n \in 1..Len(dir) :
    \E e \in DOMAIN ReaddirSync(SubSeq(dir, 1, n - 1)) :
      /\ ReaddirSync(SubSeq(dir, 1, n - 1))[e].name = dir[n]
      /\ ~ReaddirSync(SubSeq(dir, 1, n - 1))[e].file

StrictlyBelow(dir, parent) ==
  Len(dir) > Len(parent) /\ SubSeq(dir, 1, Len(parent)) = parent

\* C8: every route of the controller in folder f1/.../fn has a path that
\* starts with <apiPath>/f1/.../fn, the folder names verbatim; a plain file
\* adds no segment and no route; a folder whose module fails to load gets
\* no route and is scanned with its extended path; below a folder whose
\* module loads nothing is scanned.
C8_FolderSegments ==
  /\ \A i \in DOMAIN router :
       LET base == FolderApiPath(router[i].folder)
       IN  /\ startsWith(router[i].path, base)
           /\ Len(router[i].path) > Len(base) => router[i].path[Len(base) + 1] = "/"
           /\ IsFolderPath(router[i].folder)
           /\ \E k \in DOMAIN loaded : loaded[k].folder = router[i].folder
  /\ \A k \in DOMAIN loaded :
       /\ IsFolderPath(loaded[k].folder)
       /\ loaded[k].apiPath = FolderApiPath(loaded[k].folder)
       /\ \A n \in DOMAIN scans : ~StrictlyBelow(scans[n].dir, loaded[k].folder)
            /\ scans[n].dir # loaded[k].folder
       /\ \A m \in DOMAIN loaded : ~StrictlyBelow(loaded[m].folder, loaded[k].folder)
  /\ \A f \in failed :
       /\ IsFolderPath(f)
       /\ \A i \in DOMAIN router : router[i].folder # f
       /\ \E n \in DOMAIN scans :
            scans[n] = [dir |-> f, apiPath |-> FolderApiPath(f)]
  /\ \A n \in DOMAIN scans : scans[n].dir = <<>> \/ scans[n].dir \in failed

C8_Witness ==
  /\ pc = "returned"
  /\ <<UserRole>> \in failed
  /\ \E i \in DOMAIN router :
       router[i].folder = <<UserRole, Item>> /\ router[i].method = GetMe
  /\ \E k \in DOMAIN loaded : loaded[k].folder = <<Admin>>
  /\ \A n \in DOMAIN scans : scans[n].dir # <<Admin>>

\* the segments of a path: split('/')
RECURSIVE Segments(_, _)
Segments(path, acc) ==
  IF path = <<>> THEN <<acc>>
  ELSE IF Head(path) = "/" THEN <<acc>> \o Segments(Tail(path), <<>>)
  ELSE Segments(Tail(path), Append(acc, Head(path)))

\* first-match routing: the route answers the path when the verbs agree
\* and every segment is equal or a :parameter of the route
Answers(route, verb, path) ==
  LET rs == Segments(route.path, <<>>)
      ps == Segments(path, <<>>)
  IN  /\ route.verb = verb
      /\ Len(rs) = Len(ps)
      /\ \A n \in DOMAIN rs :
           rs[n] = ps[n] \/ (rs[n] # <<>> /\ rs[n][1] = ":" /\ ps[n] # <<>>)

\* the first route of the controller in `folder` that answers the path
FirstAnswering(folder, verb, path) ==
  CHOOSE i \in DOMAIN router :
    /\ router[i].folder = folder /\ Answers(router[i], verb, path)
    /\ \A k \in DOMAIN router :
         (router[k].folder = folder /\ Answers(router[k], verb, path)) => i <= k

\* C9: within a controller every custom route is registered before every
\* predefined route, so no custom route is preceded by a predefined route
\* of its controller that answers the custom route's path.
C9_CustomBeforePredefined ==
  /\ \A i, j \in DOMAIN router :
       (router[i].folder = router[j].folder
          /\ router[i].by = "predefined" /\ router[j].by = "custom") => j < i
  /\ \A j \in DOMAIN router :
       router[j].by = "custom" =>
         router[FirstAnswering(router[j].folder, router[j].verb, router[j].path)].by
           = "custom"

C9_Witness ==
  \E i, j \in DOMAIN router :
    /\ i < j
    /\ router[i].folder = router[j].folder
    /\ router[i].by = "custom" /\ router[i].method = GetMe
    /\ router[j].by = "predefined" /\ router[j].method = SHOW
    /\ Answers(router[j], router[i].verb, router[i].path)
    /\ LoadedAt(router[i].folder).controller.keys[1].name = SHOW

\* the functions the claim expects of one middlewares entry
ExpectedMiddleware(item) ==
  IF item.t = "function" THEN <<item>>
  ELSE IF item.t = "string"
            /\ \E n \in DOMAIN MiddlewareService :
                 MiddlewareService[n].name = item.s /\ MiddlewareService[n].fn
  THEN <<FnOf("MiddlewareService", item.s)>>
  ELSE <<>>

ExpectedChain(controller, methodName) ==
  LET ms == OwnOrUndefined(controller.middlewares, methodName)
      v  == OwnOrUndefined(controller.validation, methodName)
  IN  (IF ms.t = "array"
       THEN Concat([n \in DOMAIN ms.items |-> ExpectedMiddleware(ms.items[n])])
       ELSE <<>>)
      \o (IF v.t = "array" /\ v.items # <<>> THEN <<v, errorCheckerFn>> ELSE <<>>)
      \o <<FnOf("controller", methodName)>>

\* C10: the arguments after the path of every route are the entries of
\* controller.middlewares[method] in order (functions as given, strings
\* replaced by the MiddlewareService function of that name, strings naming
\* no such function and entries of other types skipped), then the
\* validation array and errorChecker if and only if the validation array
\* is non-empty, then exactly one wrapped handler.
C10_MiddlewareChain ==
  \A i \in DOMAIN router :
    router[i].args =
      ExpectedChain(LoadedAt(router[i].folder).controller, router[i].method)


\* ------------------------------------------------------------------------
\* Properties of a served request
\* ------------------------------------------------------------------------

NextBy(who) == SelectSeq(nextCalls, LAMBDA c : c.by = who)

\* C2: no body the wrapper passes to res.json carries a password field,
\* at the top level or in an object nested in it.
C2_NoPasswordInBody ==
  \A n \in DOMAIN jsonCalls :
    "password" \notin (jsonCalls[n].body.own \cup jsonCalls[n].body.inner)

FalsyNotZero(v) == v.lit \in {"undefined", "null", "false", "", "NaN", "0n"}

\* the same value, up to its own password property
SameValue(body, v) ==
  /\ body.t = v.t
  /\ body.lit = v.lit
  /\ body.inner = v.inner
  /\ body.frozen = v.frozen
  /\ body.own \ {"password"} = v.own \ {"password"}

\* C3: a body handed to res.json is the string 'ok' when the method
\* resolved with a falsy value other than the number 0, and the resolved
\* value itself when it resolved with 0 or a truthy value.
C3_DefaultOkBody ==
  \A n \in DOMAIN jsonCalls :
    /\ settled.how = "resolved"
    /\ IF FalsyNotZero(settled.value)
       THEN jsonCalls[n].body = OK
       ELSE SameValue(jsonCalls[n].body, settled.value)
    /\ settled.value.lit = "0" => jsonCalls[n].body # OK

C3_Witness ==
  /\ rpc = "done"
  /\ settled.value.lit = "0"
  /\ Len(jsonCalls) = 1
  /\ jsonCalls[1].body.lit = "0"
  /\ jsonCalls[1].sent

\* the body C3 describes, without the own password property
NormalizedBody(v) ==
  IF FalsyNotZero(v) THEN OK ELSE [v EXCEPT !.own = @ \ {"password"}]

\* delete result.password throws: a truthy result whose own password
\* property is non-configurable
DeleteThrows(v) == ~FalsyNotZero(v) /\ v.lit # "0" /\ "password" \in v.own /\ v.frozen

Failure ==
  IF settled.how \in {"threw", "rejected"} THEN <<settled.error>>
  ELSE IF settled.how = "resolved" /\ DeleteThrows(settled.value)
  THEN <<"TypeError:delete">>
  ELSE IF settled.how = "resolved" /\ res.statusCode = 200 /\ res.jsonThrows
  THEN <<"Error:res.json">>
  ELSE <<>>

\* C5: when the controller method, or the sending of its result, throws
\* or rejects with e, the wrapper has called next(e) exactly once, has
\* rethrown nothing and has sent no JSON body; errorChecker calls next()
\* without argument when the request has no validation error, and
\* otherwise throws the ValidationError of the first one without calling
\* next.
C5_ErrorsForwarded ==
  /\ (rpc = "done" /\ Failure # <<>>) =>
       /\ NextBy("handler") = <<[by |-> "handler", arg |-> Failure]>>
       /\ \A n \in DOMAIN raised : raised[n] \notin ErrorInputs
                                     \cup {"TypeError:delete", "Error:res.json"}
       /\ \A n \in DOMAIN jsonCalls : ~jsonCalls[n].sent
  /\ (req.viaErrorChecker /\ rpc # "errorChecker") =>
       IF req.errors = <<>>
       THEN /\ NextBy("errorChecker") = <<[by |-> "errorChecker", arg |-> <<>>]>>
            /\ raised = <<>>
       ELSE /\ NextBy("errorChecker") = <<>>
            /\ rpc = "thrown"
            /\ raised = << [name |-> "ValidationError",
                            message |-> req.errors[1].param \o <<" ">>
                                          \o req.errors[1].msg] >>

C5_Witness ==
  /\ rpc = "done"
  /\ req.viaErrorChecker
  /\ settled.how = "rejected"
  /\ nextCalls = << [by |-> "errorChecker", arg |-> <<>>],
                    [by |-> "handler", arg |-> <<settled.error>>] >>
  /\ jsonCalls = <<>>

=============================================================================
